---- MODULE Spec2Model ----
(***************************************************************************)
(* A model of necrobits/aggregator.js: the Aggregator (latest revision,    *)
(* src/unnamed/part_001 lines 1-199) together with SimpleEntitySource      *)
(* (src/unnamed/part_000).                                                 *)
(*                                                                         *)
(* JavaScript values are encoded as records of one uniform shape, path     *)
(* strings as the list of their dot-separated segments, and the lodash     *)
(* functions the aggregator calls (_.get, _.set, _.unset, _.merge, _.uniq, *)
(* _.sortBy) are operators that compute what lodash computes.              *)
(***************************************************************************)
EXTENDS Integers, Sequences, FiniteSets, TLC

(***************************************************************************)
(* Bounds of the model.                                                    *)
(***************************************************************************)
\* largest number of register calls, those of the constructor included
MaxRegistrations == 4
\* longest array of the input trees
MaxArr == 2
\* largest number of patterns of a configuration
MaxPatterns == 2

(***************************************************************************)
(* JavaScript values.  k is the kind, v the payload of a scalar (as a      *)
(* string), f the named properties of an object, e the elements of an      *)
(* array.  A hole of an array is an Undefined element.                     *)
(***************************************************************************)
NoFields == [key \in {} |-> key]

JsVal(k, v, f, e) == [k |-> k, v |-> v, f |-> f, e |-> e]

Undefined == JsVal("undef", "", NoFields, <<>>)

Null == JsVal("null", "", NoFields, <<>>)

Str(s) == JsVal("str", s, NoFields, <<>>)

Num(s) == JsVal("num", s, NoFields, <<>>)

Bool(s) == JsVal("bool", s, NoFields, <<>>)

Obj(f) == JsVal("obj", "", f, <<>>)

Arr(e) == JsVal("arr", "", NoFields, e)

\* value == null (null or undefined)
IsNullish(n) == n.k \in {"undef", "null"}

\* ToBoolean: what `!x`, `x ? a : b` and `x || y` test
Truthy(n) ==
    CASE n.k \in {"undef", "null"} -> FALSE
      [] n.k = "str" -> n.v # ""
      [] n.k = "num" -> n.v # "0"
      [] n.k = "bool" -> n.v = "true"
      [] OTHER -> TRUE

\* lodash isObject: objects, arrays and boxed primitives
IsObject(n) == n.k \in {"obj", "arr", "box"}

\* lodash isArray
IsArray(n) == n.k = "arr"

\* Object(value), as lodash's createAssigner applies it to the merge target:
\* nullish gives a fresh {}, a primitive its wrapper object
ObjectOf(n) ==
    CASE IsNullish(n) -> Obj(NoFields)
      [] IsObject(n) -> n
      [] OTHER -> JsVal("box", n.v, NoFields, <<>>)

(***************************************************************************)
(* Sequence helpers.                                                       *)
(***************************************************************************)
RECURSIVE Uniq(_)
\* _.uniq: the first occurrence of every element, in order
Uniq(s) ==
    IF s = <<>> THEN <<>>
    ELSE LET init == Uniq(SubSeq(s, 1, Len(s) - 1))
             last == s[Len(s)]
         IN IF \E i \in 1..Len(init) : init[i] = last THEN init ELSE Append(init, last)

RECURSIVE Flatten(_)
\* _.flattenDeep of a list of lists of descriptors
Flatten(ss) == IF ss = <<>> THEN <<>> ELSE Head(ss) \o Flatten(Tail(ss))

Range(s) == {s[i] : i \in 1..Len(s)}

(***************************************************************************)
(* Path strings.  A path string is the list of its dot-separated segments  *)
(* (path.split(".")); a segment is a key followed by bracketed indices,    *)
(* "tasks[0][1]".  The empty string is the list of one empty segment.      *)
(***************************************************************************)
Seg(key) == [key |-> key, idx |-> <<>>]

EmptyPath == <<Seg("")>>

\* every element is given the index 0
AppendIndexZero(cum, index) == [cum EXCEPT ![Len(cum)].idx = Append(@, 0)]

\* `${cumulatedPath}[${index}]`
AppendIndex(cum, index) == [cum EXCEPT ![Len(cum)].idx = Append(@, index)]

joinPath(base, key) == IF base = EmptyPath THEN <<Seg(key)>> ELSE Append(base, Seg(key))

\* _.dropRight(path.split(".")).join(".")
DropRightJoin(p) == IF Len(p) = 1 THEN EmptyPath ELSE SubSeq(p, 1, Len(p) - 1)

\* One step of a lodash property path: a key or an array index
KeyStep(key) == [key |-> key, isIdx |-> FALSE, i |-> 0]

IdxStep(i) == [key |-> "", isIdx |-> TRUE, i |-> i]

NumStr(i) == <<"0", "1", "2", "3", "4", "5">>[i + 1]

RECURSIVE IdxSteps(_)
IdxSteps(idx) == IF idx = <<>> THEN <<>> ELSE <<IdxStep(Head(idx))>> \o IdxSteps(Tail(idx))

RECURSIVE SegSteps(_)
SegSteps(p) ==
    IF p = <<>> THEN <<>>
    ELSE (IF Head(p).key = "" THEN <<>> ELSE <<KeyStep(Head(p).key)>>)
         \o IdxSteps(Head(p).idx) \o SegSteps(Tail(p))

RECURSIVE TailSteps(_)
\* the segments after the first: an empty segment, as in "x.", is the key ""
TailSteps(p) ==
    IF p = <<>> THEN <<>>
    ELSE <<KeyStep(Head(p).key)>> \o IdxSteps(Head(p).idx) \o TailSteps(Tail(p))

\* lodash castPath / stringToPath: "" is the single key "", "a[0].b" is a, 0, b,
\* "[0].a" is 0, a and "x." is x, ""
castPath(p) ==
    IF p = EmptyPath THEN <<KeyStep("")>> ELSE SegSteps(<<Head(p)>>) \o TailSteps(Tail(p))

(***************************************************************************)
(* Property access, _.get, _.set, _.unset, _.merge.                        *)
(***************************************************************************)
\* object[key] of a non-nullish value
Prop(n, step) ==
    IF step.isIdx
    THEN IF n.k = "arr"
         THEN IF step.i < Len(n.e) THEN n.e[step.i + 1] ELSE Undefined
         ELSE IF NumStr(step.i) \in DOMAIN n.f THEN n.f[NumStr(step.i)] ELSE Undefined
    ELSE IF step.key \in DOMAIN n.f THEN n.f[step.key] ELSE Undefined

\* key in object
HasProp(n, step) ==
    IF step.isIdx
    THEN IF n.k = "arr" THEN step.i < Len(n.e) ELSE NumStr(step.i) \in DOMAIN n.f
    ELSE step.key \in DOMAIN n.f

RECURSIVE baseGet(_, _)
baseGet(n, steps) ==
    IF steps = <<>> THEN n
    ELSE IF IsNullish(n) THEN Undefined
    ELSE baseGet(Prop(n, Head(steps)), Tail(steps))

\* _.get(object, path)
LodashGet(n, p) == baseGet(n, castPath(p))

\* object[key] = value on an object or an array
assignValue(n, step, value) ==
    IF step.isIdx /\ n.k = "arr"
    THEN IF step.i < Len(n.e)
         THEN [n EXCEPT !.e[step.i + 1] = value]
         ELSE [n EXCEPT !.e = [j \in 1..(step.i + 1) |->
                                 IF j <= Len(n.e) THEN n.e[j]
                                 ELSE IF j = step.i + 1 THEN value ELSE Undefined]]
    ELSE LET key == IF step.isIdx THEN NumStr(step.i) ELSE step.key
         IN [n EXCEPT !.f = [x \in DOMAIN n.f \cup {key} |-> IF x = key THEN value ELSE n.f[x]]]

RECURSIVE baseSetIn(_, _, _)
baseSetIn(nested, steps, value) ==
    IF Len(steps) = 1 THEN assignValue(nested, steps[1], value)
    ELSE LET objValue == Prop(nested, steps[1])
             newValue == IF IsObject(objValue) THEN objValue
                         ELSE IF steps[2].isIdx THEN Arr(<<>>) ELSE Obj(NoFields)
         IN assignValue(nested, steps[1], baseSetIn(newValue, Tail(steps), value))

\* _.set(object, path, value): the object after the call
LodashSet(n, p, value) == IF ~IsObject(n) THEN n ELSE baseSetIn(n, castPath(p), value)

\* delete object[key]
deleteProp(n, step) ==
    IF ~IsObject(n) THEN n
    ELSE IF step.isIdx /\ n.k = "arr"
    THEN IF step.i < Len(n.e) THEN [n EXCEPT !.e[step.i + 1] = Undefined] ELSE n
    ELSE LET key == IF step.isIdx THEN NumStr(step.i) ELSE step.key
         IN [n EXCEPT !.f = [x \in DOMAIN n.f \ {key} |-> n.f[x]]]

RECURSIVE baseUnset(_, _)
baseUnset(n, steps) ==
    IF Len(steps) = 1 THEN deleteProp(n, steps[1])
    ELSE IF ~IsObject(n) \/ ~HasProp(n, steps[1]) THEN n
    ELSE assignValue(n, steps[1], baseUnset(Prop(n, steps[1]), Tail(steps)))

\* _.unset(object, path): the object after the call
LodashUnset(n, p) == baseUnset(n, castPath(p))

RECURSIVE baseMerge(_, _)
\* lodash baseMerge / baseMergeDeep / assignMergeValue for a source made of
\* plain objects and scalars: a plain-object source value is merged into the
\* target's value when that is an object and into a fresh {} otherwise; an
\* undefined source value is assigned only when the key is missing.
baseMerge(object, source) ==
    LET merged(key) ==
            LET has == key \in DOMAIN object.f
                objValue == IF has THEN object.f[key] ELSE Undefined
                srcValue == source.f[key]
            IN  IF srcValue.k = "obj"
                THEN baseMerge(IF IsObject(objValue) THEN objValue ELSE Obj(NoFields), srcValue)
                ELSE IF srcValue.k = "undef" THEN objValue
                ELSE srcValue
    IN [object EXCEPT !.f = [key \in DOMAIN object.f \cup DOMAIN source.f |->
                               IF key \in DOMAIN source.f THEN merged(key) ELSE object.f[key]]]

\* _.merge(object, source): the (mutated) object it returns
LodashMerge(object, source) ==
    IF Truthy(source) /\ source.k = "obj" THEN baseMerge(ObjectOf(object), source)
    ELSE ObjectOf(object)

(***************************************************************************)
(* The path descriptor resolver.  A pattern is the list of its segments;   *)
(* the empty pattern string is the empty list.                             *)
(***************************************************************************)
RECURSIVE _collectPathsAndValues(_, _, _)
\* The nested arrays the function returns are given already flattened, as
\* collectPathsAndValues flattens them with _.flattenDeep.
_collectPathsAndValues(obj, path, cumulatedPath) ==
    IF IsArray(obj)
    THEN Flatten([index \in 1..Len(obj.e) |->
                    _collectPathsAndValues(obj.e[index], path,
                                           AppendIndex(cumulatedPath, index - 1))])
    ELSE LET currentKey == IF path = <<>> THEN "" ELSE Head(path)
             restPath == IF Len(path) <= 1 THEN <<>> ELSE Tail(path)
         IN  IF currentKey = "*"
             THEN _collectPathsAndValues(obj, restPath, cumulatedPath)
             ELSE LET pathToCurrentKey == joinPath(cumulatedPath, currentKey)
                      objValue == baseGet(obj, <<KeyStep(currentKey)>>)
                  IN  IF restPath = <<>>
                      THEN << [path |-> pathToCurrentKey,
                               value |-> objValue,
                               objectAbsent |-> ~Truthy(obj)] >>
                      ELSE _collectPathsAndValues(objValue, restPath, pathToCurrentKey)

collectPathsAndValues(obj, path) == _collectPathsAndValues(obj, path, EmptyPath)

(***************************************************************************)
(* The planner: lines 49-88 of aggregate.  options is the list of the      *)
(* configuration's entries in Object.keys order, each [path, opt].         *)
(***************************************************************************)
\* _.uniq(_.map(options, (value) => value.source))
entitySourceNames(options) == Uniq([i \in 1..Len(options) |-> options[i].opt.source])

RECURSIVE sortedPaths(_)
\* _.sortBy(Object.keys(options), (path) => path.split(".").length): stable
sortedPaths(options) ==
    IF options = <<>> THEN <<>>
    ELSE LET init == sortedPaths(SubSeq(options, 1, Len(options) - 1))
             last == options[Len(options)]
             before == SelectSeq(init, LAMBDA o : Len(o.path) <= Len(last.path))
             after == SelectSeq(init, LAMBDA o : Len(o.path) > Len(last.path))
         IN before \o <<last>> \o after

\* the first segment is dropped whatever it is
realPathDropFirst(path) == IF Len(path) >= 2 THEN Tail(path) ELSE path

\* Ignore the first '*.'
realPath(path) == IF Len(path) >= 2 /\ Head(path) = "*" THEN Tail(path) ELSE path

\* _.get(sourceToIds, sourceName, []): sourceToIds is a Map, and _.get reads
\* object properties, not Map entries, so the default [] is what it returns
existingIds(sourceToIds, sourceName) == <<>>

\* the mode is read from the option's mode field, as the README writes it
getModeFromModeField(opts) ==
    IF opts.mode # "none" THEN opts.mode ELSE IF opts.to.has THEN "toKey" ELSE "merge"

getModeFromConfig(opts) == IF opts.to.has THEN "toKey" ELSE "merge"

\* without the check of line 45
noDataNever(data) == FALSE

\* line 45: if (!data)
noData(data) == ~Truthy(data)

\* without the check of line 117
skipEntryNever(enrichmentConfig) == FALSE

\* an entry is also skipped when its identifier is undefined
skipEntryUndefinedId(enrichmentConfig) ==
    enrichmentConfig.objectAbsent \/ enrichmentConfig.id = Undefined

\* line 117: if (objectAbsent) continue
skipEntry(enrichmentConfig) == enrichmentConfig.objectAbsent

enrichmentConfigOf(pathDescriptor, pathOption) ==
    [id |-> pathDescriptor.value,
     objectAbsent |-> pathDescriptor.objectAbsent,
     idKeyPath |-> pathDescriptor.path,
     source |-> pathOption.source,
     to |-> pathOption.to,
     removeIdKey |-> pathOption.removeIdKey,
     transform |-> pathOption.transform,
     mode |-> pathOption.mode,
     toKey |-> pathOption.toKey]

RECURSIVE pushConfigsOverwrite(_, _, _)
\* the entry of a descriptor replaces the list of its target path
pushConfigsOverwrite(map, descriptors, pathOption) ==
    IF descriptors = <<>> THEN map
    ELSE LET pathDescriptor == Head(descriptors)
             concretePath == DropRightJoin(pathDescriptor.path)
             enrichmentConfig == enrichmentConfigOf(pathDescriptor, pathOption)
             at == {i \in 1..Len(map) : map[i].path = concretePath}
             next == IF at = {}
                     THEN Append(map, [path |-> concretePath, configs |-> <<enrichmentConfig>>])
                     ELSE LET i == CHOOSE j \in at : TRUE
                          IN [map EXCEPT ![i].configs = <<enrichmentConfig>>]
         IN pushConfigsOverwrite(next, Tail(descriptors), pathOption)

RECURSIVE pushConfigs(_, _, _)
\* lines 76-87: append one entry per descriptor to the list of its target path
pushConfigs(map, descriptors, pathOption) ==
    IF descriptors = <<>> THEN map
    ELSE LET pathDescriptor == Head(descriptors)
             concretePath == DropRightJoin(pathDescriptor.path)
             enrichmentConfig == enrichmentConfigOf(pathDescriptor, pathOption)
             at == {i \in 1..Len(map) : map[i].path = concretePath}
             next == IF at = {}
                     THEN Append(map, [path |-> concretePath, configs |-> <<enrichmentConfig>>])
                     ELSE LET i == CHOOSE j \in at : TRUE
                          IN [map EXCEPT ![i].configs = Append(@, enrichmentConfig)]
         IN pushConfigs(next, Tail(descriptors), pathOption)

RECURSIVE scan(_, _, _, _)
\* lines 59-88: the loop over sortedPaths.  sourceToIds is a function from the
\* source names set so far to their identifier lists.
scan(data, paths, sourceToIds, map) ==
    IF paths = <<>> THEN [sourceToIds |-> sourceToIds, pathToEnrichmentConfigMap |-> map]
    ELSE LET pathOption == Head(paths).opt
             sourceName == pathOption.source
             collectedPathDescriptors == collectPathsAndValues(data, realPath(Head(paths).path))
             collectedIds == Uniq([i \in 1..Len(collectedPathDescriptors) |->
                                     collectedPathDescriptors[i].value])
             ids == Uniq(existingIds(sourceToIds, sourceName) \o collectedIds)
             nextIds == [s \in DOMAIN sourceToIds \cup {sourceName} |->
                           IF s = sourceName THEN ids ELSE sourceToIds[s]]
         IN scan(data, Tail(paths), nextIds,
                 pushConfigs(map, collectedPathDescriptors, pathOption))

planOf(data, options) == scan(data, sortedPaths(options), NoFields, <<>>)

\* a key of pathToEnrichmentConfigMap that is an array index ("0", "1", ...):
\* a target path of one segment that is a canonical number
isIndexKey(path) ==
    Len(path) = 1 /\ path[1].idx = <<>> /\ path[1].key \in {NumStr(i) : i \in 0..5}

indexOfKey(path) == CHOOSE i \in 0..5 : NumStr(i) = path[1].key


\* line 108: _.keys(pathToEnrichmentConfigMap), as positions of map.  The
\* own keys of an object come with the array indices first, in ascending
\* order, and then the other keys in the order they were inserted.
keysOf(map) ==
    LET indices == {i \in 1..Len(map) : isIndexKey(map[i].path)}
        ascending == CHOOSE order \in [1..Cardinality(indices) -> indices] :
                       \A m, n \in 1..Cardinality(indices) :
                         m < n => indexOfKey(map[order[m]].path) < indexOfKey(map[order[n]].path)
    IN ascending \o SelectSeq([i \in 1..Len(map) |-> i], LAMBDA i : i \notin indices)

\* the entries in the order the injection loops visit them (lines 108-110),
\* each with the key of pathToEnrichmentConfigMap it is listed under
entriesOf(map) ==
    Flatten([k \in 1..Len(map) |->
               LET i == keysOf(map)[k]
               IN [j \in 1..Len(map[i].configs) |->
                     [path |-> map[i].path, config |-> map[i].configs[j]]]])

(***************************************************************************)
(* The entity sources: SimpleEntitySource instances, which keep what they  *)
(* looked up in memory, and a CachedEntitySource instance, which keeps it  *)
(* in an EntityCache.  Each is over a fixed collection, looked up the way  *)
(* the tests do (ids.includes(entity.id)), with entityIdBy "id".           *)
(***************************************************************************)
Collection ==
    [userSource |-> [A |-> Obj([id |-> Str("A"), name |-> Str("Andy")])],
     todoSource |-> [A |-> Obj([id |-> Str("A"), task |-> Str("Study"), b |-> Str("A")]),
                     B |-> Obj([id |-> Str("B"), task |-> Str("Code")])],
     cachedSource |-> [A |-> Obj([id |-> Str("A"), name |-> Str("Andy")])]]

Instances == DOMAIN Collection

SimpleInstances == {"userSource", "todoSource"}

CachedInstances == {"cachedSource"}

\* opts.transform of every instance: the default (element) => element, or
\* (element) => ({...element, s: "S"})
sourceTransform(inst, element) ==
    IF inst = "userSource" THEN element
    ELSE Obj([x \in DOMAIN element.f \cup {"s"} |-> IF x = "s" THEN Str("S") ELSE element.f[x]])

\* `${value}`
ToStr(n) ==
    CASE n.k = "undef" -> "undefined"
      [] n.k = "null" -> "null"
      [] n.k \in {"str", "num", "bool"} -> n.v
      [] OTHER -> "[object Object]"

\* lookupFn(ids): the entities of the collection whose id is among ids
lookupFn(inst, ids) ==
    {id \in DOMAIN Collection[inst] : \E i \in 1..Len(ids) : ids[i] = Str(id)}

\* getElementId with a string entityIdBy: `${element[this.lookupIdGetter]}`
getElementId(element) == element.f["id"].v

\* the for loop of prepare: this.memory.set(id, this.transform(element))
memorySet(mem, inst, found) ==
    [id \in DOMAIN mem \cup {getElementId(Collection[inst][x]) : x \in found} |->
        IF \E x \in found : getElementId(Collection[inst][x]) = id
        THEN sourceTransform(inst, Collection[inst][CHOOSE x \in found :
                                                      getElementId(Collection[inst][x]) = id])
        ELSE mem[id]]

\* get(id): this.memory.get(id); the keys of memory are strings
memoryGet(mem, id) == IF id.k = "str" /\ id.v \in DOMAIN mem THEN mem[id.v] ELSE Undefined

\* defaultCacheKey: `$${cacheKeyPrefix}::${name}::${uniqueId}::${id}`; the
\* instance stands for its name and uniqueId
cacheKeyUsing(inst, id) == <<"$aggcache", inst, ToStr(id)>>

\* setBatch of the elements as they were looked up
setBatchRaw(entries, inst, found) ==
    LET keyOf(x) == cacheKeyUsing(inst, Str(getElementId(Collection[inst][x])))
    IN [key \in DOMAIN entries \cup {keyOf(x) : x \in found} |->
          IF \E x \in found : keyOf(x) = key
          THEN Collection[inst][CHOOSE x \in found : keyOf(x) = key]
          ELSE entries[key]]

\* CachedEntitySource.prepare: cache.setBatch of the transformed elements
\* under their keys, on a cache that keeps what it is given
setBatch(entries, inst, found) ==
    LET keyOf(x) == cacheKeyUsing(inst, Str(getElementId(Collection[inst][x])))
    IN [key \in DOMAIN entries \cup {keyOf(x) : x \in found} |->
          IF \E x \in found : keyOf(x) = key
          THEN sourceTransform(inst, Collection[inst][CHOOSE x \in found : keyOf(x) = key])
          ELSE entries[key]]

\* CachedEntitySource.get: cache.get(this.cacheKeyUsing(id))
cacheGet(entries, inst, id) ==
    IF cacheKeyUsing(inst, id) \in DOMAIN entries THEN entries[cacheKeyUsing(inst, id)]
    ELSE Undefined

(***************************************************************************)
(* Transform functions a path option may carry.  "mark" is                  *)
(* (e) => ({...e, m: "M"}).                                                *)
(***************************************************************************)
applyTransform(t, e) ==
    IF t = "mark"
    THEN LET base == IF e.k = "obj" THEN e ELSE Obj(NoFields)
         IN Obj([x \in DOMAIN base.f \cup {"m"} |-> IF x = "m" THEN Str("M") ELSE base.f[x]])
    ELSE e

(***************************************************************************)
(* The injection of one entry: lines 120-147 of aggregate, after get has   *)
(* returned enrichmentData0.                                               *)
(***************************************************************************)
\* line 123: if (transform && _.isFunction(transform))
calledTransform(config) == config.transform # "none"

\* lines 122-125
transformed(config, enrichmentData0) ==
    IF calledTransform(config) THEN applyTransform(config.transform, enrichmentData0)
    ELSE enrichmentData0

\* the entity replaces the target instead of being merged into it
injectMergeReplace(data, path, enrichmentData) ==
    IF path # EmptyPath
    THEN LodashSet(data, path, IF Truthy(enrichmentData) THEN enrichmentData
                               ELSE LodashGet(data, path))
    ELSE IF Truthy(enrichmentData) THEN enrichmentData ELSE data

\* lines 126-132
injectMerge(data, path, enrichmentData) ==
    IF path # EmptyPath
    THEN LET finalReplacement == IF Truthy(enrichmentData)
                                 THEN LodashMerge(LodashGet(data, path), enrichmentData)
                                 ELSE LodashGet(data, path)
         IN LodashSet(data, path, finalReplacement)
    ELSE IF Truthy(enrichmentData) THEN LodashMerge(data, enrichmentData) ELSE data

\* TO_KEY with omitNull writes null like TO_KEY without it
injectToKeyKeepNull(data, path, config, enrichmentData) ==
    LodashSet(data, joinPath(path, config.to.key),
              IF Truthy(enrichmentData) THEN enrichmentData ELSE Null)

\* lines 133-143
injectToKey(data, path, config, enrichmentData) ==
    LET targetKey == config.to.key
        omitNull == config.to.omitNull
        targetPath == joinPath(path, targetKey)
        finalReplacement == IF Truthy(enrichmentData) THEN enrichmentData ELSE Null
        written == LodashSet(data, targetPath, finalReplacement)
    IN IF omitNull /\ finalReplacement = Null THEN LodashUnset(written, targetPath) ELSE written

\* the identifier field is never removed
removeIdKeyNever(data, config) == data

\* lines 145-147
removeIdKey(data, config) ==
    IF config.removeIdKey /\ config.idKeyPath # EmptyPath
    THEN LodashUnset(data, config.idKeyPath) ELSE data

\* aggregate works on a copy of the tree it is passed
parameterCopy == "fresh"

\* line 44: the parameter data is the reference the caller passed
parameterRef == "caller"

\* line 131: data = enrichmentData ? _.merge(data, enrichmentData) : data is
\* the one assignment to data; _.merge returns Object(data), which is data
\* itself unless data is a primitive.  _.set and _.unset write in place.
refAfterInject(ref, data, entry, enrichmentData0) ==
    IF /\ getModeFromConfig(entry.config) = "merge"
       /\ entry.path = EmptyPath
       /\ Truthy(transformed(entry.config, enrichmentData0))
       /\ ~IsObject(data)
    THEN "fresh" ELSE ref

\* path q leads to the node path p leads to, or into it
pathWithin(p, q) ==
    /\ Len(SegSteps(p)) <= Len(SegSteps(q))
    /\ SubSeq(SegSteps(q), 1, Len(SegSteps(p))) = SegSteps(p)

\* lines 140-146: _.set at the target key and _.unset of the identifier put
\* another value, or nothing, where the place of an alias was
aliasLost(alias, entry) ==
    \/ /\ getModeFromConfig(entry.config) = "toKey"
       /\ pathWithin(joinPath(entry.path, entry.config.to.key), alias.path)
    \/ /\ entry.config.removeIdKey
       /\ entry.config.idKeyPath # EmptyPath
       /\ pathWithin(entry.config.idKeyPath, alias.path)


\* lines 50-53 and 140: SimpleEntitySource.get returns the object its memory
\* holds, and _.set stores that object, not a copy, when no transform of the
\* entry has made another one of it
aliasMade(tree, entry, inst, enrichmentData0) ==
    LET targetPath == joinPath(entry.path, entry.config.to.key)
    IN IF /\ getModeFromConfig(entry.config) = "toKey"
          /\ ~calledTransform(entry.config)
          /\ inst \in SimpleInstances
          /\ IsObject(enrichmentData0)
          /\ LodashGet(tree, targetPath) = enrichmentData0
       THEN {[path |-> targetPath, inst |-> inst, id |-> entry.config.id.v]}
       ELSE {}

\* the aliases after an entry has been injected into tree
aliasesAfter(als, tree, entry, inst, enrichmentData0) ==
    {a \in als : ~aliasLost(a, entry)} \cup aliasMade(tree, entry, inst, enrichmentData0)

\* lines 128-146: _.merge, _.set and _.unset write into the object they are
\* given.  When that object is an entity of a memory (tree holds it at the
\* place of an alias), the memory holds the written entity.
memoryAfter(mem, tree, als) ==
    [inst \in DOMAIN mem |->
       [id \in DOMAIN mem[inst] |->
          LET written == {a \in als : /\ a.inst = inst /\ a.id = id
                                      /\ LodashGet(tree, a.path) # mem[inst][id]}
          IN IF written = {} THEN mem[inst][id]
             ELSE LodashGet(tree, (CHOOSE a \in written : TRUE).path)]]

RECURSIVE treeSynced(_, _, _)
\* every place of an alias shows the entity as the memory holds it now
treeSynced(tree, mem, als) ==
    IF als = {} THEN tree
    ELSE LET a == CHOOSE x \in als : \A y \in als : Len(SegSteps(x.path)) <= Len(SegSteps(y.path))
         IN treeSynced(LodashSet(tree, a.path, mem[a.inst][a.id]), mem, als \ {a})

injectEntry(data, entry, enrichmentData0) ==
    LET config == entry.config
        enrichmentData == transformed(config, enrichmentData0)
        mode == getModeFromConfig(config)
        injected == IF mode = "merge" THEN injectMerge(data, entry.path, enrichmentData)
                    ELSE injectToKey(data, entry.path, config, enrichmentData)
    IN removeIdKey(injected, config)

(***************************************************************************)
(* The inputs of aggregate: data trees and configurations.                 *)
(***************************************************************************)
\* objects with the identifier fields a and b
Records ==
    { Obj([key \in ks |-> IF key = "a" THEN va ELSE Str("B")]) :
        ks \in SUBSET {"a", "b"}, va \in {Null, Str("A"), Str("B")} }

\* what an array holds
Elements == {Null, Obj(NoFields), Obj([a |-> Str("A")]), Obj([a |-> Null, b |-> Str("B")])}

SeqsUpTo(S, n) == UNION {[1..m -> S] : m \in 0..n}

Arrays == {Arr(e) : e \in SeqsUpTo(Elements, MaxArr)}

\* objects whose field x holds a record, null or an array
Nested == { Obj([x |-> vx, b |-> Str("B")]) : vx \in Elements \cup Arrays }

Scalars == {Num("0"), Num("1"), Str(""), Bool("false")}

\* objects that already have a field of the name TO_KEY options write to
Keyed ==
    { Obj([a |-> Null, b |-> Str("B"), k |-> Str("old")]),
      Obj([a |-> Str("A"), b |-> Str("B"), k |-> Str("old")]) }

\* an object with an identifier field of its own and one in a nested object
Deep == { Obj([a |-> Str("A"), x |-> Obj([a |-> Str("A")])]) }

Trees == {Null} \cup Scalars \cup Records \cup Keyed \cup Deep \cup Arrays \cup Nested

NoTo == [has |-> FALSE, key |-> "", omitNull |-> FALSE]

ToKey(key, omitNull) == [has |-> TRUE, key |-> key, omitNull |-> omitNull]

\* mode and toKey are the fields of the README's grammar, which the option
\* type does not declare; "none" and "" stand for their absence
PathOption(source, to, remove, transform) ==
    [source |-> source, to |-> to, removeIdKey |-> remove, transform |-> transform,
     mode |-> "none", toKey |-> ""]

\* an option written in the README's grammar
ReadmeOption(source, to, mode, toKey) ==
    [source |-> source, to |-> to, removeIdKey |-> FALSE, transform |-> "none",
     mode |-> mode, toKey |-> toKey]

\* "ghost" is a source name the constructor does not register
PathOptions ==
    { PathOption("user", NoTo, FALSE, "none"),
      PathOption("todo", NoTo, TRUE, "none"),
      PathOption("user", ToKey("k", FALSE), TRUE, "none"),
      PathOption("todo", ToKey("k", TRUE), FALSE, "none"),
      PathOption("todo", NoTo, FALSE, "mark"),
      PathOption("user", ToKey("k", FALSE), FALSE, "mark"),
      ReadmeOption("user", NoTo, "toKey", "k"),
      ReadmeOption("user", ToKey("k", FALSE), "merge", ""),
      PathOption("ghost", NoTo, FALSE, "none") }

Patterns == {<<"a">>, <<"b">>, <<"x", "a">>, <<"*", "a">>, <<"x", "*", "a">>}

\* the entries that configurations of several patterns are made of
PairEntries ==
    { [path |-> <<"a">>, opt |-> PathOption("user", NoTo, FALSE, "none")],
      [path |-> <<"a">>, opt |-> PathOption("todo", ToKey("k", TRUE), FALSE, "none")],
      [path |-> <<"a">>, opt |-> PathOption("ghost", NoTo, FALSE, "none")],
      [path |-> <<"b">>, opt |-> PathOption("user", ToKey("k", FALSE), TRUE, "none")],
      [path |-> <<"b">>, opt |-> PathOption("todo", NoTo, TRUE, "none")],
      [path |-> <<"x", "a">>, opt |-> PathOption("todo", NoTo, TRUE, "none")],
      [path |-> <<"x", "a">>, opt |-> PathOption("user", ToKey("k", FALSE), TRUE, "none")],
      [path |-> <<"*", "a">>, opt |-> PathOption("todo", NoTo, FALSE, "mark")] }

\* configurations in Object.keys order: the empty one, every pattern with every
\* option, and up to MaxPatterns of PairEntries; the keys of an object are distinct
Configurations ==
    { c \in SeqsUpTo([path : Patterns, opt : PathOptions], 1) \cup
            SeqsUpTo(PairEntries, MaxPatterns) :
        \A i, j \in 1..Len(c) : i # j => c[i].path # c[j].path }

(***************************************************************************)
(* State.                                                                  *)
(***************************************************************************)
VARIABLES
    sources,      \* Aggregator.sources: registered name -> source instance
    memory,       \* SimpleEntitySource.memory of every instance
    pc,           \* where the aggregate call is
    input,        \* the data argument as it was passed
    options,      \* the options argument
    data,         \* the tree, mutated in place
    plan,         \* pathToEnrichmentConfigMap as the list of its entries
    idx,          \* the entry the injection loops are at
    prepareLog,   \* the prepare calls made, in order
    pending,      \* the prepare calls (indices of prepareLog) not yet settled
    getLog,       \* the get calls made, in order
    enrichmentData, \* what the outstanding get read
    result,       \* what aggregate returned
    error,        \* why aggregate failed
    transformLog, \* the calls of transform functions made, in order
    calls,        \* the number of aggregate calls made
    rejected,     \* the prepare calls (indices of prepareLog) that failed
    registerLog,  \* the register calls made, constructor included, in order
    registerResult,\* what the last register call returned
    cache,        \* the entries of the EntityCache the cached sources share
    getRejected,  \* the plan entry whose get rejected, 0 while none has
    dataRef,      \* the object the local data of aggregate refers to: the caller's, or a fresh one
    aliases,      \* the places of data that hold an entity of a source's memory itself
    other         \* the other aggregate call on this aggregator, while it waits

vars == <<sources, memory, pc, input, options, data, plan, idx, prepareLog, pending,
          getLog, enrichmentData, result, error, transformLog, calls, rejected,
          registerLog, registerResult,
          cache,
          getRejected,
          dataRef,
          aliases,
          other>>

\* a call of aggregate that has not started: its locals and what is recorded
\* of it
idleCall(n) ==
    [call |-> n, pc |-> "idle", input |-> Undefined, options |-> <<>>, data |-> Undefined,
     plan |-> <<>>, idx |-> 1, prepareLog |-> <<>>, pending |-> {}, getLog |-> <<>>,
     enrichmentData |-> Undefined, result |-> Undefined, error |-> "none",
     transformLog |-> <<>>, rejected |-> {}, getRejected |-> 0, dataRef |-> "caller",
     aliases |-> {}]

Init ==
    /\ sources = [user |-> "userSource", todo |-> "todoSource"]
    /\ memory = [inst \in SimpleInstances |-> NoFields]
    /\ pc = "idle"
    /\ input = Undefined
    /\ options = <<>>
    /\ data = Undefined
    /\ plan = <<>>
    /\ idx = 1
    /\ prepareLog = <<>>
    /\ pending = {}
    /\ getLog = <<>>
    /\ enrichmentData = Undefined
    /\ result = Undefined
    /\ error = "none"
    /\ transformLog = <<>>
    /\ calls = 0
    /\ rejected = {}
    /\ registerLog = <<[name |-> "user", source |-> "userSource"], [name |-> "todo", source |-> "todoSource"]>>
    /\ registerResult = "this"
    /\ cache = NoFields
    /\ getRejected = 0
    /\ dataRef = "caller"
    /\ aliases = {}
    /\ other = idleCall(2)

\* source.get(id) of an instance of either class
sourceGet(inst, id) ==
    IF inst \in SimpleInstances THEN memoryGet(memory[inst], id) ELSE cacheGet(cache, inst, id)

(***************************************************************************)
(* aggregate, up to its first await: lines 44-104.                         *)
(***************************************************************************)
\* the source names the prepare loop visits before it throws or ends
visited(names, registered) ==
    IF \E i \in 1..Len(names) : names[i] \notin registered
    THEN SubSeq(names, 1, (CHOOSE i \in 1..Len(names) :
                             /\ names[i] \notin registered
                             /\ \A j \in 1..(i - 1) : names[j] \in registered) - 1)
    ELSE names

\* lines 92-103: the prepare calls of the loop, in order
prepareCalls(names, sourceToIds, srcs) ==
    LET launched == SelectSeq(visited(names, DOMAIN srcs),
                              LAMBDA n : Len(sourceToIds[n]) # 0)
    IN [i \in 1..Len(launched) |->
          [name |-> launched[i], source |-> srcs[launched[i]], ids |-> sourceToIds[launched[i]]]]

Aggregate(d, opts) ==
    /\ input' = d
    /\ options' = opts
    /\ IF noData(d)
       THEN /\ pc' = "done"
            /\ result' = Null
            /\ UNCHANGED <<data, plan, prepareLog, pending, error>>
       ELSE LET planned == planOf(d, opts)
                names == entitySourceNames(opts)
                preparePromises == prepareCalls(names, planned.sourceToIds, sources)
            IN /\ data' = d
               /\ plan' = entriesOf(planned.pathToEnrichmentConfigMap)
               /\ prepareLog' = preparePromises
               /\ pending' = 1..Len(preparePromises)
               /\ IF \E i \in 1..Len(names) : names[i] \notin DOMAIN sources
                  THEN pc' = "failed" /\ error' = "unregistered"
                  ELSE pc' = "preparing" /\ error' = "none"
               /\ UNCHANGED result
    /\ calls' = calls + 1
    /\ idx' = 1
    /\ getLog' = <<>>
    /\ enrichmentData' = Undefined
    /\ transformLog' = <<>>
    /\ rejected' = {}
    /\ getRejected' = 0
    /\ dataRef' = parameterRef
    /\ UNCHANGED <<sources, memory, registerLog, registerResult, cache, aliases, other>>

\* a prepare call settles: its lookup failed, or memory holds what it found
PrepareSettle(i, ok) ==
    /\ i \in pending
    /\ pending' = pending \ {i}
    /\ LET inst == prepareLog[i].source
           found == lookupFn(inst, prepareLog[i].ids)
       IN IF ok /\ inst \in SimpleInstances
          THEN /\ memory' = [memory EXCEPT ![inst] = memorySet(@, inst, found)]
               /\ aliases' = {a \in aliases : a.inst # inst \/ a.id \notin found}
               /\ UNCHANGED cache
          ELSE IF ok
          THEN cache' = setBatch(cache, inst, found) /\ UNCHANGED <<memory, aliases>>
          ELSE UNCHANGED <<memory, cache, aliases>>
    /\ IF ~ok /\ pc = "preparing"
       THEN pc' = "failed" /\ error' = "prepare"
       ELSE UNCHANGED <<pc, error>>
    /\ rejected' = IF ok THEN rejected ELSE rejected \cup {i}
    /\ UNCHANGED <<sources, input, options, data, plan, idx, prepareLog, getLog,
                   enrichmentData, result, transformLog, calls,
                   registerLog, registerResult, getRejected, dataRef,
                   other>>

\* the await resumes as soon as one prepare call has settled
PreparesJoinedRace ==
    /\ pc = "preparing"
    /\ pending # 1..Len(prepareLog) \/ prepareLog = <<>>
    /\ pc' = "injecting"
    /\ UNCHANGED <<sources, memory, input, options, data, plan, idx, prepareLog, pending,
                   getLog, enrichmentData, result, error, transformLog, calls,
                   rejected, registerLog, registerResult, cache,
                   getRejected, dataRef, aliases, other>>

\* line 104: await Promise.all(preparePromises) resumes
PreparesJoined ==
    /\ pc = "preparing"
    /\ pending = {}
    /\ pc' = "injecting"
    /\ UNCHANGED <<sources, memory, input, options, data, plan, idx, prepareLog, pending,
                   getLog, enrichmentData, result, error, transformLog, calls,
                   rejected, registerLog, registerResult, cache,
                   getRejected, dataRef, aliases, other>>

\* the loop stays at an entry it skips
InjectSkipStuck ==
    /\ pc = "injecting"
    /\ idx <= Len(plan)
    /\ skipEntry(plan[idx].config)
    /\ UNCHANGED vars

\* lines 117-119: an entry whose object is absent
InjectSkip ==
    /\ pc = "injecting"
    /\ idx <= Len(plan)
    /\ skipEntry(plan[idx].config)
    /\ idx' = idx + 1
    /\ UNCHANGED <<sources, memory, pc, input, options, data, plan, prepareLog, pending,
                   getLog, enrichmentData, result, error, transformLog, calls,
                   rejected, registerLog, registerResult, cache,
                   getRejected, dataRef, aliases, other>>

\* the get of the next entry is called along with the get of this one
InjectGetAhead ==
    /\ pc = "injecting"
    /\ idx <= Len(plan)
    /\ ~skipEntry(plan[idx].config)
    /\ LET config == plan[idx].config
           inst == sources[config.source]
           this == [name |-> config.source, source |-> inst,
                    id |-> config.id, entry |-> idx,
                    value |-> sourceGet(inst, config.id)]
           next == IF idx < Len(plan) /\ ~skipEntry(plan[idx + 1].config)
                   THEN LET c == plan[idx + 1].config
                        IN <<[name |-> c.source, source |-> sources[c.source],
                              id |-> c.id, entry |-> idx + 1,
                              value |-> sourceGet(sources[c.source], c.id)]>>
                   ELSE <<>>
       IN /\ getLog' = Append(getLog, this) \o next
          /\ enrichmentData' = sourceGet(inst, config.id)
    /\ pc' = "awaitGet"
    /\ UNCHANGED <<sources, memory, input, options, data, plan, idx, prepareLog, pending,
                   result, error, transformLog, calls, rejected,
                   registerLog, registerResult, cache, getRejected,
                   dataRef, aliases, other>>

\* the identifier is read from the tree when the entry's turn comes
InjectGetLate ==
    /\ pc = "injecting"
    /\ idx <= Len(plan)
    /\ ~skipEntry(plan[idx].config)
    /\ LET config == plan[idx].config
           inst == sources[config.source]
           id == LodashGet(data, config.idKeyPath)
       IN /\ getLog' = Append(getLog, [name |-> config.source, source |-> inst,
                                       id |-> id, entry |-> idx,
                                       value |-> sourceGet(inst, id)])
          /\ enrichmentData' = sourceGet(inst, id)
    /\ pc' = "awaitGet"
    /\ UNCHANGED <<sources, memory, input, options, data, plan, idx, prepareLog, pending,
                   result, error, transformLog, calls, rejected,
                   registerLog, registerResult, cache, getRejected,
                   dataRef, aliases, other>>

\* line 121: the call of get
InjectGet ==
    /\ pc = "injecting"
    /\ idx <= Len(plan)
    /\ ~skipEntry(plan[idx].config)
    /\ LET config == plan[idx].config
           inst == sources[config.source]
       IN /\ getLog' = Append(getLog, [name |-> config.source, source |-> inst,
                                       id |-> config.id, entry |-> idx,
                                       value |-> sourceGet(inst, config.id)])
          /\ enrichmentData' = sourceGet(inst, config.id)
    /\ pc' = "awaitGet"
    /\ UNCHANGED <<sources, memory, input, options, data, plan, idx, prepareLog, pending,
                   result, error, transformLog, calls, rejected,
                   registerLog, registerResult, cache, getRejected,
                   dataRef, aliases, other>>

\* the failure of get is swallowed and the entry is injected without an entity
getRejectionIgnored ==
    /\ data' = injectEntry(data, plan[idx], Undefined)
    /\ idx' = idx + 1
    /\ pc' = "injecting"
    /\ UNCHANGED error

\* line 121: await of a rejected promise throws out of aggregate
getRejection ==
    /\ pc' = "failed"
    /\ error' = "get"
    /\ UNCHANGED <<data, idx>>

\* line 121: the awaited get rejects, and aggregate rejects with it
InjectGetFails ==
    /\ pc = "awaitGet"
    /\ getRejected' = idx
    /\ getRejection
    /\ enrichmentData' = Undefined
    /\ UNCHANGED <<sources, memory, input, options, plan, prepareLog, pending,
                   getLog, result, transformLog, calls, rejected,
                   registerLog, registerResult, cache, dataRef, aliases,
                   other>>

\* lines 122-147: get has returned, the entry is injected
InjectApply ==
    /\ pc = "awaitGet"
    /\ LET injected == injectEntry(data, plan[idx], enrichmentData)
           inst == sources[plan[idx].config.source]
       IN /\ aliases' = aliasesAfter(aliases, injected, plan[idx], inst, enrichmentData)
          /\ memory' = memoryAfter(memory, injected, aliases')
          /\ data' = treeSynced(injected, memory', aliases')
    /\ idx' = idx + 1
    /\ pc' = "injecting"
    /\ enrichmentData' = Undefined
    /\ transformLog' = IF calledTransform(plan[idx].config)
                       THEN Append(transformLog, [entry |-> idx, arg |-> enrichmentData])
                       ELSE transformLog
    /\ dataRef' = refAfterInject(dataRef, data, plan[idx], enrichmentData)
    /\ UNCHANGED <<sources, input, options, plan, prepareLog, pending, getLog,
                   result, error, calls, rejected, registerLog,
                   registerResult, cache, getRejected, other>>

\* line 150
Return ==
    /\ pc = "injecting"
    /\ idx > Len(plan)
    /\ pc' = "done"
    /\ result' = data
    /\ UNCHANGED <<sources, memory, input, options, data, plan, idx, prepareLog, pending,
                   getLog, enrichmentData, error, transformLog, calls,
                   rejected, registerLog, registerResult, cache,
                   getRejected, dataRef, aliases, other>>

\* Two calls of aggregate on one aggregator: while the running call waits
\* for its prepare calls or for a get, or has ended, the event loop runs the
\* other call; the sources, their memory and the cache are the same for both
Switch ==
    /\ pc \in {"preparing", "awaitGet", "done", "failed"}
    /\ other.pc \in {"idle", "preparing", "awaitGet"}
    /\ other' = [call |-> 3 - other.call, pc |-> pc, input |-> input, options |-> options,
                 data |-> data, plan |-> plan, idx |-> idx, prepareLog |-> prepareLog,
                 pending |-> pending, getLog |-> getLog, enrichmentData |-> enrichmentData,
                 result |-> result, error |-> error, transformLog |-> transformLog,
                 rejected |-> rejected, getRejected |-> getRejected, dataRef |-> dataRef,
                 aliases |-> aliases]
    /\ pc' = other.pc
    /\ input' = other.input
    /\ options' = other.options
    /\ data' = other.data
    /\ plan' = other.plan
    /\ idx' = other.idx
    /\ prepareLog' = other.prepareLog
    /\ pending' = other.pending
    /\ getLog' = other.getLog
    /\ enrichmentData' = other.enrichmentData
    /\ result' = other.result
    /\ error' = other.error
    /\ transformLog' = other.transformLog
    /\ rejected' = other.rejected
    /\ getRejected' = other.getRejected
    /\ dataRef' = other.dataRef
    /\ aliases' = other.aliases
    /\ UNCHANGED <<sources, memory, calls, registerLog, registerResult, cache>>

Next ==
    \/ pc = "idle" /\ \E d \in Trees, opts \in Configurations : Aggregate(d, opts)
    \/ \E i \in pending, ok \in BOOLEAN : PrepareSettle(i, ok)
    \/ PreparesJoined
    \/ InjectSkip
    \/ InjectGet
    \/ InjectGetFails
    \/ InjectApply
    \/ Return

Spec == Init /\ [][Next]_vars

(***************************************************************************)
(* The aggregator with register calls made before aggregate is called.     *)
(* Init is the aggregator constructed with {user: ..., todo: ...}: the     *)
(* constructor registers every entry of its argument.                      *)
(***************************************************************************)
SourceNames == {"user", "todo", "ghost"}

\* this.sources.set(name, source) keeps the entry already there
RegisterFirstWins(name, source) ==
    /\ Len(registerLog) < MaxRegistrations
    /\ sources' = [n \in DOMAIN sources \cup {name} |->
                      IF n \in DOMAIN sources THEN sources[n] ELSE source]
    /\ registerLog' = Append(registerLog, [name |-> name, source |-> source])
    /\ registerResult' = "this"
    /\ UNCHANGED <<memory, pc, input, options, data, plan, idx, prepareLog, pending,
                   getLog, enrichmentData, result, error, transformLog, calls, rejected,
                   cache, getRejected, dataRef, aliases, other>>

\* lines 31-34: register(name, source)
Register(name, source) ==
    /\ Len(registerLog) < MaxRegistrations
    /\ sources' = [n \in DOMAIN sources \cup {name} |->
                      IF n = name THEN source ELSE sources[n]]
    /\ registerLog' = Append(registerLog, [name |-> name, source |-> source])
    /\ registerResult' = "this"
    /\ UNCHANGED <<memory, pc, input, options, data, plan, idx, prepareLog, pending,
                   getLog, enrichmentData, result, error, transformLog, calls, rejected,
                   cache, getRejected, dataRef, aliases, other>>

\* the configurations of one pattern over the fields of a record
RecordConfigurations ==
    {c \in Configurations : Len(c) = 1 /\ c[1].path \in {<<"a">>, <<"b">>, <<"x", "a">>}}

NextRegister ==
    \/ pc = "idle" /\ \E name \in SourceNames, source \in Instances : Register(name, source)
    \/ pc = "idle" /\ \E d \in Records, opts \in RecordConfigurations : Aggregate(d, opts)
    \/ \E i \in pending, ok \in BOOLEAN : PrepareSettle(i, ok)
    \/ PreparesJoined
    \/ InjectSkip
    \/ InjectGet
    \/ InjectGetFails
    \/ InjectApply
    \/ Return

SpecRegister == Init /\ [][NextRegister]_vars

(***************************************************************************)
(* A second call of aggregate, on the tree the first call returned and     *)
(* with the same configuration, all of whose patterns have removeIdKey.    *)
(* The sources keep what their first prepare put in memory.                *)
(***************************************************************************)
AggregateAgain ==
    /\ pc = "done"
    /\ calls = 1
    /\ options # <<>>
    /\ \A i \in 1..Len(options) : options[i].opt.removeIdKey
    /\ Aggregate(result, options)

NextTwice == Next \/ AggregateAgain

SpecTwice == Init /\ [][NextTwice]_vars

(***************************************************************************)
(* What the claims speak about.                                            *)
(***************************************************************************)
Started == pc # "idle"

Entries == 1..Len(plan)

Gets == 1..Len(getLog)

Prepares == 1..Len(prepareLog)

\* the occurrences of the patterns of one source in the input tree
occurrencesOf(name) ==
    Flatten([i \in 1..Len(options) |->
               IF options[i].opt.source = name
               THEN collectPathsAndValues(input, realPath(options[i].path))
               ELSE <<>>])

\* the distinct non-null identifiers the input tree holds for one source
nonNullIdsOf(name) ==
    {v \in {occurrencesOf(name)[i].value : i \in 1..Len(occurrencesOf(name))} : ~IsNullish(v)}

namesUnregistered == \E i \in 1..Len(options) : options[i].opt.source \notin DOMAIN sources

\* the container of an entry's identifier field, read from a tree
containerOf(tree, entry) ==
    IF entry.path = EmptyPath THEN tree ELSE LodashGet(tree, entry.path)

\* the name of an entry's identifier field
idKeyOf(entry) == entry.config.idKeyPath[Len(entry.config.idKeyPath)].key

\* the container of the identifier field is null or missing in the input
containerMissing(entry) == IsNullish(containerOf(input, entry))

\* the container is an object of the input that lacks the identifier field
fieldMissing(entry) ==
    /\ containerOf(input, entry).k = "obj"
    /\ idKeyOf(entry) \notin DOMAIN containerOf(input, entry).f

\* the step in which the outstanding get call returns (it does not reject)
getReturned == pc = "awaitGet" /\ getRejected' = 0

\* what the outstanding get call returned, after the entry's transform
resolved == transformed(plan[idx].config, enrichmentData)

(***************************************************************************)
(* C1.  No get is invoked until every prepare call of the call has         *)
(* completed, whatever the order the prepare calls complete in: while a    *)
(* prepare call is pending no get has been made and none is outstanding.   *)
(***************************************************************************)
C1_NoGetBeforePreparesDone == pending # {} => (getLog = <<>> /\ pc # "awaitGet")

\* two prepare calls were launched, both completed, and a get was made
C1_Witness == Len(prepareLog) = 2 /\ pending = {} /\ getLog # <<>>

(***************************************************************************)
(* C2.  Every non-null identifier passed to a source's get was in the      *)
(* identifier list passed to that source's prepare earlier in the call.    *)
(***************************************************************************)
C2_GetWasPrepared ==
    \A g \in Gets :
        ~IsNullish(getLog[g].id) =>
            \E p \in Prepares :
                /\ prepareLog[p].source = getLog[g].source
                /\ getLog[g].id \in Range(prepareLog[p].ids)

(***************************************************************************)
(* C3.  For one pattern whose occurrences hold K >= 1 distinct non-null    *)
(* identifiers, prepare of its (registered) source is invoked exactly once *)
(* and its argument is exactly those K identifiers, each once, without a   *)
(* null or undefined element.                                              *)
(***************************************************************************)
C3_PrepareOnceWithExactIds ==
    (/\ Started
     /\ Len(options) = 1
     /\ ~namesUnregistered
     /\ nonNullIdsOf(options[1].opt.source) # {})
    => (/\ Len(prepareLog) = 1
        /\ Range(prepareLog[1].ids) = nonNullIdsOf(options[1].opt.source)
        /\ Len(prepareLog[1].ids) = Cardinality(nonNullIdsOf(options[1].opt.source)))

(***************************************************************************)
(* C4.  A registered source named in the configuration that has no         *)
(* non-null identifier in the tree is not prepared.                        *)
(***************************************************************************)
C4_NoPrepareWithoutIds ==
    Started =>
        \A i \in 1..Len(options) :
            LET name == options[i].opt.source
            IN (name \in DOMAIN sources /\ nonNullIdsOf(name) = {})
               => \A p \in Prepares : prepareLog[p].name # name

(***************************************************************************)
(* C5.  For non-null data and a configuration that names an unregistered   *)
(* source, aggregate fails, no get is invoked and the tree is as passed.   *)
(***************************************************************************)
C5_UnregisteredFails ==
    (Started /\ input # Null /\ namesUnregistered)
    => (pc = "failed" /\ getLog = <<>> /\ (data = input \/ data = Undefined))

(***************************************************************************)
(* C6.  aggregate(null, config) returns null for every configuration and   *)
(* invokes neither prepare nor get.                                        *)
(***************************************************************************)
C6_NullReturnsNull ==
    (Started /\ input = Null)
    => (pc = "done" /\ result = Null /\ prepareLog = <<>> /\ getLog = <<>>)

\* aggregate was called with null and a configuration that has a pattern
C6_Witness == pc = "done" /\ input = Null /\ options # <<>>

(***************************************************************************)
(* C7.  With the empty configuration aggregate returns the data value it   *)
(* was given, falsy scalars included, and calls no source.                 *)
(***************************************************************************)
C7_EmptyConfigReturnsData ==
    (Started /\ options = <<>>)
    => (/\ pc \in {"preparing", "injecting", "done"}
        /\ prepareLog = <<>> /\ getLog = <<>>
        /\ pc = "done" => result = input)

(***************************************************************************)
(* C8.  Where the container of the identifier field is null or missing,    *)
(* aggregate does not fail, calls no get for that location and leaves the  *)
(* tree unchanged there: no get is ever logged for such an entry, and the  *)
(* step that handles the entry changes neither the tree nor the get calls  *)
(* and does not fail.                                                      *)
(***************************************************************************)
C8_AbsentContainerSkipped ==
    /\ [](\A g \in Gets : ~containerMissing(plan[getLog[g].entry]))
    /\ [][(pc = "injecting" /\ idx <= Len(plan) /\ containerMissing(plan[idx]))
          => (data' = data /\ getLog' = getLog /\ pc' = "injecting" /\ idx' = idx + 1)]_vars

\* an entry whose container is missing was passed and the call returned
C8_Witness ==
    /\ pc = "done" /\ result # Null
    /\ \E i \in Entries : containerMissing(plan[i])
    /\ \E i \in Entries : ~containerMissing(plan[i])

C10_MergeKeepsAllFields ==
    [][(/\ getReturned
        /\ getModeFromConfig(plan[idx].config) = "merge"
        /\ ~IsNullish(resolved))
       => LET before == containerOf(data, plan[idx])
              after == containerOf(data', plan[idx])
          IN /\ \A key \in DOMAIN resolved.f :
                    ~IsObject(resolved.f[key])
                    => (key \in DOMAIN after.f /\ after.f[key] = resolved.f[key])
             /\ \A key \in DOMAIN before.f \ DOMAIN resolved.f :
                    key \in DOMAIN after.f /\ after.f[key] = before.f[key]]_vars

(***************************************************************************)
(* C10 as amended.  The same, apart from the identifier field when         *)
(* removeIdKey is set: that field is removed after the merge.              *)
(***************************************************************************)
C10_MergeKeepsFieldsButIdKey ==
    [][(/\ getReturned
        /\ getModeFromConfig(plan[idx].config) = "merge"
        /\ ~IsNullish(resolved))
       => LET before == containerOf(data, plan[idx])
              after == containerOf(data', plan[idx])
              removed == IF plan[idx].config.removeIdKey THEN {idKeyOf(plan[idx])} ELSE {}
          IN /\ \A key \in DOMAIN resolved.f \ removed :
                    ~IsObject(resolved.f[key])
                    => (key \in DOMAIN after.f /\ after.f[key] = resolved.f[key])
             /\ \A key \in DOMAIN before.f \ (DOMAIN resolved.f \cup removed) :
                    key \in DOMAIN after.f /\ after.f[key] = before.f[key]
             /\ \A key \in removed : key \notin DOMAIN after.f]_vars

\* a MERGE entry with removeIdKey was applied with an entity, at a nested target
C10_Witness ==
    /\ pc = "injecting" /\ idx > 1 /\ getLog # <<>>
    /\ getLog[Len(getLog)].entry = idx - 1
    /\ getModeFromConfig(plan[idx - 1].config) = "merge"
    /\ plan[idx - 1].config.removeIdKey
    /\ plan[idx - 1].path # EmptyPath
    /\ ~IsNullish(transformed(plan[idx - 1].config,
                              memoryGet(memory[getLog[Len(getLog)].source],
                                        getLog[Len(getLog)].id)))
    /\ "task" \in DOMAIN containerOf(data, plan[idx - 1]).f

(***************************************************************************)
(* What an applied entry is expected to leave behind.                      *)
(***************************************************************************)
\* the entry an outstanding get belongs to is a MERGE / TO_KEY entry
applyingMerge == getReturned /\ getModeFromConfig(plan[idx].config) = "merge"

applyingToKey == getReturned /\ getModeFromConfig(plan[idx].config) = "toKey"

\* an object without one of its fields
withoutField(n, key) ==
    IF n.k = "obj" THEN [n EXCEPT !.f = [x \in DOMAIN n.f \ {key} |-> n.f[x]]] ELSE n

\* an object without the identifier field of an entry that removes it
withoutIdKey(n, entry) ==
    IF entry.config.removeIdKey THEN withoutField(n, idKeyOf(entry)) ELSE n

(***************************************************************************)
(* C11.  In MERGE mode, when the identifier is null or the fetched entity  *)
(* is null or absent, applying the entry leaves the object at the target   *)
(* path with exactly the fields and values it had, apart from the          *)
(* identifier field when removeIdKey is set; an array element is not       *)
(* replaced by null and gains no field.                                    *)
(***************************************************************************)
C11_MergeNullKeepsTarget ==
    [][(applyingMerge /\ (IsNullish(plan[idx].config.id) \/ IsNullish(enrichmentData)))
       => containerOf(data', plan[idx]) = withoutIdKey(containerOf(data, plan[idx]), plan[idx])]_vars

\* the same for the entries that carry no transform
C11_MergeNullKeepsTargetNoTransform ==
    [][(/\ applyingMerge
        /\ plan[idx].config.transform = "none"
        /\ (IsNullish(plan[idx].config.id) \/ IsNullish(enrichmentData)))
       => containerOf(data', plan[idx]) = withoutIdKey(containerOf(data, plan[idx]), plan[idx])]_vars

(***************************************************************************)
(* C12.  In TO_KEY mode without omitNull, applying the entry to an object  *)
(* leaves the field to.key of that object equal to the (transformed)       *)
(* entity, or to null when the identifier or the fetched entity is null;   *)
(* every other field of the object except the identifier field is          *)
(* unchanged.                                                              *)
(***************************************************************************)
C12_ToKeySetsKey ==
    [][(/\ applyingToKey
        /\ ~plan[idx].config.to.omitNull
        /\ containerOf(data, plan[idx]).k = "obj")
       => LET config == plan[idx].config
              before == containerOf(data, plan[idx])
              after == containerOf(data', plan[idx])
              others == {config.to.key, idKeyOf(plan[idx])}
              expected == IF IsNullish(config.id) \/ IsNullish(enrichmentData)
                          THEN Null ELSE resolved
          IN /\ after.k = "obj"
             /\ config.to.key \in DOMAIN after.f
             /\ after.f[config.to.key] = expected
             /\ DOMAIN after.f \ others = DOMAIN before.f \ others
             /\ \A key \in DOMAIN before.f \ others : after.f[key] = before.f[key]]_vars

\* the same for the entries that carry no transform
C12_ToKeySetsKeyNoTransform ==
    [][(/\ applyingToKey
        /\ ~plan[idx].config.to.omitNull
        /\ plan[idx].config.transform = "none"
        /\ containerOf(data, plan[idx]).k = "obj")
       => LET config == plan[idx].config
              before == containerOf(data, plan[idx])
              after == containerOf(data', plan[idx])
              others == {config.to.key, idKeyOf(plan[idx])}
              expected == IF IsNullish(config.id) \/ IsNullish(enrichmentData)
                          THEN Null ELSE resolved
          IN /\ after.k = "obj"
             /\ config.to.key \in DOMAIN after.f
             /\ after.f[config.to.key] = expected
             /\ DOMAIN after.f \ others = DOMAIN before.f \ others
             /\ \A key \in DOMAIN before.f \ others : after.f[key] = before.f[key]]_vars

\* the entries applied so far: every one before idx, flagged absent or not
passed(i) == i < idx \/ pc = "done"

\* another entry of the same node writes the same key
keyWrittenByOther(i) ==
    \E j \in Entries \ {i} :
        /\ plan[j].path = plan[i].path
        /\ getModeFromConfig(plan[j].config) = "toKey"
        /\ plan[j].config.to.key = plan[i].config.to.key

idKeyIn(tree, entry) == idKeyOf(entry) \in DOMAIN containerOf(tree, entry).f

\* the entry is the only one of its node
aloneAtNode(i) == \A j \in Entries \ {i} : plan[j].path # plan[i].path

C16_NoGetForNullId ==
    \A g \in Gets : plan[getLog[g].entry].config.id # Null /\ getLog[g].id # Null

(***************************************************************************)
(* C17.  A configured transform is not invoked when the fetched entity is  *)
(* null or absent, and is invoked exactly once per entry on a non-null     *)
(* entity: no call of a transform has a null or undefined argument, and no *)
(* entry has two calls.                                                    *)
(***************************************************************************)
C17_TransformSkipsNull ==
    /\ \A t \in 1..Len(transformLog) : ~IsNullish(transformLog[t].arg)
    /\ \A t, u \in 1..Len(transformLog) :
          transformLog[t].entry = transformLog[u].entry => t = u

\* the occurrences of all the patterns in the input tree, each with its option
allOccurrences ==
    Flatten([i \in 1..Len(options) |->
               LET found == collectPathsAndValues(input, realPath(options[i].path))
               IN [j \in 1..Len(found) |-> [descriptor |-> found[j], opt |-> options[i].opt]]])

\* the plan entry an occurrence gives
entryOf(occurrence) ==
    [path |-> DropRightJoin(occurrence.descriptor.path),
     config |-> enrichmentConfigOf(occurrence.descriptor, occurrence.opt)]

(***************************************************************************)
(* C18.  When several patterns resolve to identifier fields of the same    *)
(* object, all of their plan entries are kept and every one is applied,    *)
(* whatever their modes: the plan that aggregate has built when it starts  *)
(* to wait for the prepare calls has exactly one entry per occurrence of a *)
(* pattern, and when the call returns every entry whose container exists   *)
(* has had its get, exactly once.                                          *)
(***************************************************************************)
C18_AllEntriesKeptAndApplied ==
    /\ (pc = "preparing" /\ pending = Prepares)
       => LET occ == allOccurrences
              expected == [o \in 1..Len(occ) |-> entryOf(occ[o])]
          IN /\ Len(plan) = Len(expected)
             /\ \A o \in 1..Len(expected) :
                   Cardinality({i \in Entries : plan[i] = expected[o]})
                   = Cardinality({q \in 1..Len(expected) : expected[q] = expected[o]})
    /\ (pc = "done" /\ ~noData(input))
       => \A i \in Entries :
             ~plan[i].config.objectAbsent
             => Cardinality({g \in Gets : getLog[g].entry = i}) = 1

\* a MERGE entry and a TO_KEY entry of the same object were both applied
C18_Witness ==
    /\ pc = "done" /\ Len(plan) = 2 /\ plan[1].path = plan[2].path
    /\ getModeFromConfig(plan[1].config) # getModeFromConfig(plan[2].config)
    /\ Len(getLog) = 2
    /\ "name" \in DOMAIN result.f /\ "k" \in DOMAIN result.f

(***************************************************************************)
(* C19.  For a tree already aggregated with a configuration whose patterns *)
(* all have removeIdKey true, a second aggregate call with the same        *)
(* configuration leaves the tree exactly as the first call left it: what   *)
(* the second call returns is the tree it was given.                       *)
(***************************************************************************)
C19_SecondCallNoOp == (calls = 2 /\ pc = "done") => result = input

\* the same for the configurations whose patterns are all in MERGE mode
C19_SecondCallNoOpMerge ==
    (/\ calls = 2 /\ pc = "done"
     /\ \A i \in 1..Len(options) : getModeFromConfig(options[i].opt) = "merge")
    => result = input

\* a configuration of one pattern, with "*." put before its key
starred(opts) == <<[path |-> <<"*">> \o opts[1].path, opt |-> opts[1].opt]>>

\* a configuration of one pattern, with the leading "*." taken off its key
unstarred(opts) == <<[path |-> Tail(opts[1].path), opt |-> opts[1].opt]>>

RECURSIVE treeAfter(_, _, _)
\* the tree a list of plan entries gives when the sources hold mem
treeAfter(tree, entries, mem) ==
    IF entries = <<>> THEN tree
    ELSE LET entry == Head(entries)
             entity == memoryGet(mem[sources[entry.config.source]], entry.config.id)
         IN treeAfter(IF skipEntry(entry.config) THEN tree ELSE injectEntry(tree, entry, entity),
                      Tail(entries), mem)

(***************************************************************************)
(* C20.  A configuration keyed by "*." followed by p gives the same plan,  *)
(* the same source calls and the same resulting tree as the configuration  *)
(* keyed by p with the same option: for the tree and the one-pattern       *)
(* configuration of a call, the configuration with "*." before its key     *)
(* plans the same entries and the same prepare calls; and a call whose     *)
(* key starts with "*." has the plan, the prepare calls, the get calls and *)
(* the result that the key without it gives.                               *)
(***************************************************************************)
C20_LeadingStarIgnored ==
    (calls = 1 /\ Len(options) = 1 /\ ~noData(input))
    => LET names == entitySourceNames(options)
       IN /\ planOf(input, starred(options)) = planOf(input, options)
          /\ prepareCalls(names, planOf(input, starred(options)).sourceToIds, sources)
             = prepareCalls(names, planOf(input, options).sourceToIds, sources)
          /\ (Len(options[1].path) >= 2 /\ Head(options[1].path) = "*")
             => LET twin == planOf(input, unstarred(options))
                    entries == entriesOf(twin.pathToEnrichmentConfigMap)
                IN /\ plan = entries
                   /\ prepareLog = prepareCalls(names, twin.sourceToIds, sources)
                   /\ \A g \in Gets : getLog[g].id = entries[getLog[g].entry].config.id
                   /\ pc = "done" => result = treeAfter(input, entries, memory)

\* a call keyed by "*.a" on an array fetched an entity and returned
C20_Witness ==
    /\ pc = "done" /\ calls = 1 /\ Len(options) = 1
    /\ options[1].path = <<"*", "a">>
    /\ input.k = "arr" /\ Len(plan) = 2 /\ getLog # <<>>
    /\ result # input

(***************************************************************************)
(* C21.  If the prepare call of any source fails, aggregate fails with     *)
(* that failure, no get is invoked on any source in that call and the tree *)
(* is left exactly as it was passed in.                                    *)
(***************************************************************************)
C21_PrepareFailureAborts ==
    rejected # {}
    => (pc = "failed" /\ error = "prepare" /\ getLog = <<>> /\ data = input)

\* the same for the calls whose sources are all registered
C21_PrepareFailureAbortsRegistered ==
    (rejected # {} /\ ~namesUnregistered)
    => (pc = "failed" /\ error = "prepare" /\ getLog = <<>> /\ data = input)

(***************************************************************************)
(* C22.  If a get call fails while the k-th plan entry is being injected,  *)
(* aggregate fails with that failure, the k-th entry writes nothing and    *)
(* removes nothing, and no get is issued and no write is made for any      *)
(* later entry.                                                            *)
(***************************************************************************)
C22_GetFailureAborts ==
    /\ [][getRejected' # getRejected /\ getRejected' # 0
          => (pc' = "failed" /\ error' = "get" /\ data' = data /\ getLog' = getLog)]_vars
    /\ [][getRejected # 0
          => (pc' = "failed" /\ error' = "get" /\ data' = data /\ getLog' = getLog)]_vars
    /\ [](getRejected # 0
          => (pc = "failed" /\ error = "get" /\ getLog # <<>>
              /\ getLog[Len(getLog)].entry = getRejected
              /\ \A g \in Gets : getLog[g].entry <= getRejected))

\* the get of the second entry failed after the first entry had been written
C22_Witness ==
    /\ getRejected = 2 /\ error = "get" /\ pc = "failed" /\ Len(plan) >= 3
    /\ data # input /\ Len(getLog) = 2

\* the source of the last registration of a name, "none" when there is none
lastRegistered(name) ==
    LET at == {i \in 1..Len(registerLog) : registerLog[i].name = name}
    IN IF at = {} THEN "none"
       ELSE registerLog[CHOOSE i \in at : \A j \in at : j <= i].source

(***************************************************************************)
(* C23.  After any sequence of register calls, those of the constructor    *)
(* included, a name resolves to the source of the last registration of     *)
(* that name (and to nothing when it was never registered); register       *)
(* returns the aggregator itself; aggregate never changes the mapping.     *)
(***************************************************************************)
C23_LastRegistrationWins ==
    /\ [](\A name \in SourceNames :
             lastRegistered(name) = IF name \in DOMAIN sources THEN sources[name] ELSE "none")
    /\ [][registerLog' # registerLog => registerResult' = "this"]_vars
    /\ [][registerLog' = registerLog => sources' = sources]_vars

\* a name of the constructor was registered again with another source, a new
\* name was registered, and an aggregate call then fetched from the new mapping
C23_Witness ==
    /\ Len(registerLog) = 4 /\ pc = "done"
    /\ \E i, j \in 3..4 : /\ registerLog[i] = [name |-> "user", source |-> "todoSource"]
                          /\ registerLog[j].name = "ghost"
    /\ sources["user"] = "todoSource"
    /\ \E g \in Gets : getLog[g].name = "user" /\ getLog[g].source = "todoSource"

\* the identifiers a lookup is asked about: strings
SourceIds == {Str("A"), Str("B"), Str("C")}

\* what lookup returns for one identifier, after the transform of the source
lookedUp(inst, id) ==
    IF id.v \in DOMAIN Collection[inst]
    THEN sourceTransform(inst, Collection[inst][id.v])
    ELSE Undefined

\* C24: for both source classes, once a prepare call of identifiers has
\* completed, get of each identifier that lookup found returns the entity
\* after the transform of the source, from then on; get of an identifier
\* that no completed prepare stored returns absent (a value, no failure);
\* and every get the aggregator makes after its prepare calls returns
\* exactly that
C24_GetAfterPrepare ==
    /\ [][\A i \in pending \ pending' :
            i \notin rejected' =>
              \A j \in 1..Len(prepareLog[i].ids) :
                LET id == prepareLog[i].ids[j]
                IN (id \in SourceIds /\ lookedUp(prepareLog[i].source, id) # Undefined)
                     => sourceGet(prepareLog[i].source, id)'
                          = lookedUp(prepareLog[i].source, id)]_vars
    /\ [][\A inst \in Instances, id \in SourceIds :
            /\ sourceGet(inst, id) # Undefined => sourceGet(inst, id)' = sourceGet(inst, id)
            /\ (sourceGet(inst, id) = Undefined /\ sourceGet(inst, id)' # Undefined)
                 => \E i \in pending \ pending' :
                      /\ i \notin rejected'
                      /\ prepareLog[i].source = inst
                      /\ \E j \in 1..Len(prepareLog[i].ids) : prepareLog[i].ids[j] = id]_vars
    /\ [](\A g \in Gets :
            getLog[g].id \in SourceIds => getLog[g].value = lookedUp(getLog[g].source, getLog[g].id))

C24_Witness ==
    /\ pc = "done"
    /\ \E g \in Gets :
         /\ getLog[g].source = "cachedSource"
         /\ getLog[g].id = Str("A")
         /\ getLog[g].value = Obj([id |-> Str("A"), name |-> Str("Andy"), s |-> Str("S")])
         /\ result # input
    /\ cacheGet(cache, "cachedSource", Str("B")) = Undefined
    /\ memoryGet(memory["userSource"], Str("A")) = Undefined

C26_UnregisteredBeforeAnyPrepare ==
    error = "unregistered" => (pc = "failed" /\ namesUnregistered /\ prepareLog = <<>>)

\* the keys and indices a concrete path goes through, from the root
stepsOf(path) == SegSteps(path)

\* path p leads to a proper ancestor of what path q leads to
properAncestor(p, q) ==
    /\ Len(stepsOf(p)) < Len(stepsOf(q))
    /\ SubSeq(stepsOf(q), 1, Len(stepsOf(p))) = stepsOf(p)

\* the patterns are planned in ascending order of segment count
plannedAscending ==
    LET sorted == sortedPaths(options)
    IN /\ Len(sorted) = Len(options)
       /\ \A i, j \in 1..Len(sorted) : i < j => Len(sorted[i].path) <= Len(sorted[j].path)

\* C27: the patterns are planned in ascending order of their number of
\* segments, and of two plan entries of a call of which one's target path
\* is a proper ancestor of the other's, the one at the ancestor is injected
\* first (the plan is injected in its order)
C27_AncestorsInjectedFirst ==
    Started =>
      /\ plannedAscending
      /\ \A i, j \in Entries : properAncestor(plan[i].path, plan[j].path) => i < j
      /\ \A g, h \in Gets : g < h => getLog[g].entry < getLog[h].entry

\* the same, for configurations without a leading "*." pattern
C27_AncestorsInjectedFirstUnstarred ==
    (Started /\ \A i \in 1..Len(options) : Head(options[i].path) # "*") =>
      /\ plannedAscending
      /\ \A i, j \in Entries : properAncestor(plan[i].path, plan[j].path) => i < j
      /\ \A g, h \in Gets : g < h => getLog[g].entry < getLog[h].entry

(***************************************************************************)
(* Calls in which an entry at the root writes, with TO_KEY, the field x    *)
(* that is the container of a deeper entry.  The identifier at the root is *)
(* one the user source does not find, so that null is written (or, with    *)
(* omitNull, the field is removed).                                        *)
(***************************************************************************)
NulledTrees ==
    { Obj([a |-> Str("B"), x |-> Obj([a |-> Str("A")])]),
      Obj([a |-> Null, x |-> Obj([a |-> Str("A")])]),
      Obj([a |-> Str("B")]) }

NulledConfigurations ==
    { << [path |-> <<"a">>, opt |-> PathOption("user", ToKey("x", omitNull), FALSE, "none")],
         [path |-> <<"x", "a">>, opt |-> deeper] >> :
        omitNull \in BOOLEAN,
        deeper \in { PathOption("todo", NoTo, FALSE, "none"),
                     PathOption("todo", NoTo, TRUE, "none"),
                     PathOption("user", ToKey("k", FALSE), FALSE, "none"),
                     PathOption("todo", ToKey("k", TRUE), TRUE, "none") } }

NextNulled ==
    \/ pc = "idle" /\ \E d \in NulledTrees, opts \in NulledConfigurations : Aggregate(d, opts)
    \/ \E i \in pending, ok \in BOOLEAN : PrepareSettle(i, ok)
    \/ PreparesJoined
    \/ InjectSkip
    \/ InjectGet
    \/ InjectGetFails
    \/ InjectApply
    \/ Return

SpecNulled == Init /\ [][NextNulled]_vars

\* the container of the entry whose turn it is was in the tree passed and
\* is null or missing now: an earlier injection nulled or removed it
containerNulled ==
    /\ pc \in {"injecting", "awaitGet"}
    /\ idx \in Entries
    /\ plan[idx].path # EmptyPath
    /\ ~IsNullish(containerOf(input, plan[idx]))
    /\ IsNullish(containerOf(data, plan[idx]))

\* C28: when an injection at a shallower path has set to null, or removed,
\* the container a deeper entry targets, the deeper entry writes nothing
\* when its turn comes: the container stays null or missing
C28_NulledContainerSkipped ==
    [][containerNulled => data' = data]_vars

\* the get calls made that have neither been applied nor rejected
outstandingGets == {g \in Gets : getLog[g].entry >= idx /\ getLog[g].entry # getRejected}

\* what the get call of entry k returned
returnedFor(k) == getLog[CHOOSE g \in Gets : getLog[g].entry = k].value

RECURSIVE appliedUpTo(_)
\* the tree passed after the writes and identifier removals of the entries
\* 1..k, each with what its get call returned
appliedUpTo(k) ==
    IF k = 0 THEN input
    ELSE IF skipEntry(plan[k].config) THEN appliedUpTo(k - 1)
    ELSE injectEntry(appliedUpTo(k - 1), plan[k], returnedFor(k))

\* C29: during injection at most one get call is outstanding; a get is
\* issued, for the entry whose turn it is, only when none is outstanding
\* and the writes and identifier removals of all entries before it have
\* been applied to the tree
C29_OneGetAtATime ==
    /\ [](Cardinality(outstandingGets) <= 1)
    /\ [](outstandingGets # {} => (pc = "awaitGet" /\ getLog[Len(getLog)].entry = idx))
    /\ [](pc \in {"injecting", "awaitGet"} => data = appliedUpTo(idx - 1))
    /\ [][getLog' # getLog /\ getLog' # <<>>
          => /\ outstandingGets = {}
             /\ getLog' = Append(getLog, getLog'[Len(getLog')])
             /\ getLog'[Len(getLog')].entry = idx
             /\ data = appliedUpTo(idx - 1)]_vars

\* the get of the second entry is outstanding, the first entry is written
C29_Witness ==
    /\ pc = "awaitGet" /\ idx = 2 /\ Len(getLog) = 2
    /\ outstandingGets = {2}
    /\ data # input
    /\ data = injectEntry(input, plan[1], getLog[1].value)

(***************************************************************************)
(* Calls on trees in which a pattern crosses two arrays: an array of       *)
(* objects whose field x holds an array, and an array of arrays.           *)
(***************************************************************************)
InnerArrays == {Arr(e) : e \in SeqsUpTo({Obj([a |-> Str("A")]), Obj([a |-> Str("B")])}, MaxArr)}

CrossedElements == {Null} \cup InnerArrays \cup {Obj([x |-> inner]) : inner \in InnerArrays}

CrossedTrees ==
    { Arr(<<e1, e2>>) :
        e1 \in CrossedElements,
        e2 \in { Null,
                 Arr(<<Obj([a |-> Str("B")])>>),
                 Obj([x |-> Arr(<<Obj([a |-> Str("A")]), Obj([a |-> Str("B")])>>)]) } }

CrossedConfigurations ==
    { << [path |-> path, opt |-> opt] >> :
        path \in {<<"a">>, <<"x", "a">>, <<"*", "x", "*", "a">>},
        opt \in { PathOption("user", NoTo, FALSE, "none"),
                  PathOption("todo", ToKey("k", FALSE), TRUE, "none") } }

NextCrossed ==
    \/ pc = "idle" /\ \E d \in CrossedTrees, opts \in CrossedConfigurations : Aggregate(d, opts)
    \/ \E i \in pending, ok \in BOOLEAN : PrepareSettle(i, ok)
    \/ PreparesJoined
    \/ InjectSkip
    \/ InjectGet
    \/ InjectGetFails
    \/ InjectApply
    \/ Return

SpecCrossed == Init /\ [][NextCrossed]_vars

\* the indices of a concrete path, in the order they occur in it
indexVector(path) ==
    LET steps == SelectSeq(stepsOf(path), LAMBDA st : st.isIdx)
    IN [n \in 1..Len(steps) |-> steps[n].i]

\* u comes before v in document order
lexLess(u, v) ==
    \E n \in 1..Len(v) :
      /\ n - 1 <= Len(u)
      /\ \A m \in 1..(n - 1) : u[m] = v[m]
      /\ (n > Len(u) \/ u[n] < v[n])

RECURSIVE locations(_, _)
\* the concrete locations of a pattern in a tree, each as the combination of
\* the element indices of the arrays crossed on the way to it
locations(node, pattern) ==
    IF IsArray(node)
    THEN UNION { {<<n - 1>> \o v : v \in locations(node.e[n], pattern)} : n \in 1..Len(node.e) }
    ELSE IF Len(pattern) <= 1 THEN {<<>>}
    ELSE IF Head(pattern) = "*" THEN locations(node, Tail(pattern))
    ELSE locations(baseGet(node, <<KeyStep(Head(pattern))>>), Tail(pattern))

\* the descriptors of the i-th pattern of the configuration of the call
descriptorsOf(i) == collectPathsAndValues(input, realPath(options[i].path))

\* C30: for the tree and each pattern of a call, the resolver returns one
\* flat list of descriptors, one for each concrete location (each
\* combination of element indices of the arrays crossed) and no other, in
\* document order; no concrete path has a wildcard segment, and reading
\* the tree at the concrete path gives the descriptor's identifier value.
\* For a configuration of one pattern these descriptors are the plan.
C30_OneDescriptorPerLocation ==
    (Started /\ ~noData(input)) =>
      /\ \A i \in 1..Len(options) :
           LET ds == descriptorsOf(i)
               pattern == realPath(options[i].path)
           IN /\ \A d \in 1..Len(ds) :
                   /\ DOMAIN ds[d] = {"path", "value", "objectAbsent"}
                   /\ \A n \in 1..Len(ds[d].path) : ds[d].path[n].key # "*"
                   /\ LodashGet(input, ds[d].path) = ds[d].value
              /\ {indexVector(ds[d].path) : d \in 1..Len(ds)} = locations(input, pattern)
              /\ Len(ds) = Cardinality(locations(input, pattern))
              /\ \A d, e \in 1..Len(ds) :
                   d < e => lexLess(indexVector(ds[d].path), indexVector(ds[e].path))
      /\ (Len(options) = 1 /\ error # "unregistered") =>
           /\ Len(plan) = Len(descriptorsOf(1))
           /\ \A d \in Entries :
                /\ plan[d].config.idKeyPath = descriptorsOf(1)[d].path
                /\ plan[d].config.id = descriptorsOf(1)[d].value

\* a wildcard pattern over two crossed arrays: four locations, the last at
\* indices 1 and 1
C30_Witness ==
    /\ pc = "done"
    /\ options[1].path = <<"*", "x", "*", "a">>
    /\ Len(descriptorsOf(1)) = 4
    /\ indexVector(descriptorsOf(1)[4].path) = <<1, 1>>
    /\ descriptorsOf(1)[4].value = Str("B")
    /\ plan[4].config.idKeyPath = descriptorsOf(1)[4].path

(***************************************************************************)
(* Calls in which an entry at the root injects an entity of the user       *)
(* source with TO_KEY under x (and, in some, under k as well), and a       *)
(* deeper entry, planned from the x of the tree as passed, then writes at  *)
(* x.                                                                      *)
(***************************************************************************)
AliasedTrees ==
    { Obj([a |-> Str("A"), x |-> Obj([a |-> Str("A")])]),
      Obj([a |-> Str("A"), b |-> Str("A"), x |-> Obj([a |-> Str("B")])]),
      Obj([a |-> Str("A"), x |-> Obj([id |-> Str("A")])]),
      Obj([a |-> Str("A")]) }

AliasedConfigurations ==
    { << [path |-> <<"a">>, opt |-> PathOption("user", ToKey("x", FALSE), FALSE, transform)] >>
        \o first \o << [path |-> deeper[1], opt |-> deeper[2]] >> :
        transform \in {"none", "mark"},
        first \in { <<>>,
                    << [path |-> <<"b">>,
                        opt |-> PathOption("user", ToKey("k", FALSE), FALSE, "none")] >> },
        deeper \in { <<<<"x", "a">>, PathOption("todo", NoTo, FALSE, "none")>>,
                     <<<<"x", "a">>, PathOption("todo", ToKey("k", FALSE), FALSE, "none")>>,
                     <<<<"x", "id">>, PathOption("todo", NoTo, TRUE, "none")>> } }

NextAliased ==
    \/ pc = "idle" /\ \E d \in AliasedTrees, opts \in AliasedConfigurations : Aggregate(d, opts)
    \/ \E i \in pending, ok \in BOOLEAN : PrepareSettle(i, ok)
    \/ PreparesJoined
    \/ InjectSkip
    \/ InjectGet
    \/ InjectGetFails
    \/ InjectApply
    \/ Return

SpecAliased == Init /\ [][NextAliased]_vars

\* C31: aggregate never modifies an entity a source holds: whatever has been
\* injected and written, what get of a SimpleEntitySource returns for an
\* identifier is the entity as its lookup and transform made it
C31_EntitiesUnmodified ==
    \A inst \in SimpleInstances :
      \A id \in DOMAIN memory[inst] :
        memoryGet(memory[inst], Str(id)) = lookedUp(inst, Str(id))

(***************************************************************************)
(* Calls whose patterns have "*" segments in the middle and at the end.    *)
(***************************************************************************)
StarredTrees ==
    { Obj([x |-> Arr(<<Obj([a |-> Str("A")]), Obj([a |-> Str("B")])>>)]),
      Obj([x |-> Arr(<<Str("A"), Str("B")>>)]),
      Obj([x |-> Obj([a |-> Str("A")])]),
      Obj([x |-> Null]),
      Arr(<<Obj([x |-> Obj([a |-> Str("A")])]), Obj([x |-> Arr(<<Obj([a |-> Str("B")])>>)]), Null>>) }

StarredConfigurations ==
    { << [path |-> path, opt |-> opt] >> :
        path \in { <<"x", "a">>, <<"x", "*", "a">>, <<"*", "x", "*", "a">>,
                   <<"x", "*">>, <<"x", "a", "*">> },
        opt \in { PathOption("user", NoTo, FALSE, "none"),
                  PathOption("todo", ToKey("k", FALSE), TRUE, "none") } }

NextStarred ==
    \/ pc = "idle" /\ \E d \in StarredTrees, opts \in StarredConfigurations : Aggregate(d, opts)
    \/ \E i \in pending, ok \in BOOLEAN : PrepareSettle(i, ok)
    \/ PreparesJoined
    \/ InjectSkip
    \/ InjectGet
    \/ InjectGetFails
    \/ InjectApply
    \/ Return

SpecStarred == Init /\ [][NextStarred]_vars

\* a pattern without its "*" segments
withoutStars(pattern) == SelectSeq(pattern, LAMBDA segment : segment # "*")

\* C32: a "*" segment never changes what the resolver returns: for the tree
\* and each pattern of a call, the pattern and the pattern without its "*"
\* segments resolve to the same list of descriptors
C32_StarsChangeNothing ==
    (Started /\ ~noData(input)) =>
      \A i \in 1..Len(options) :
        collectPathsAndValues(input, realPath(options[i].path))
          = collectPathsAndValues(input, withoutStars(realPath(options[i].path)))

\* the same, for the patterns that do not end with "*"
C32_InnerStarsChangeNothing ==
    (Started /\ ~noData(input)) =>
      \A i \in 1..Len(options) :
        options[i].path[Len(options[i].path)] # "*" =>
          collectPathsAndValues(input, realPath(options[i].path))
            = collectPathsAndValues(input, withoutStars(realPath(options[i].path)))

\* the identifier values the tree passed has at the places the plan entries
\* of a source name were matched at
matchedIds(name) ==
    {LodashGet(input, plan[e].config.idKeyPath) : e \in {n \in Entries : plan[n].config.source = name}}

\* C33: the plan is fixed from the tree as it is when aggregate starts: it
\* does not change during the call, every identifier passed to prepare or
\* to get is the value the tree passed had at a matched place, and an entry
\* whose container was missing from the tree passed gets no get call, also
\* when an injection has put an entity with that identifier field there
C33_PlanFixedFromInput ==
    /\ [][(pc # "idle" /\ calls' = calls) => (plan' = plan /\ input' = input)]_vars
    /\ [](\A g \in Gets :
            /\ getLog[g].id = plan[getLog[g].entry].config.id
            /\ getLog[g].id = LodashGet(input, plan[getLog[g].entry].config.idKeyPath)
            /\ ~IsNullish(containerOf(input, plan[getLog[g].entry])))
    /\ [](\A i \in Prepares :
            \A n \in 1..Len(prepareLog[i].ids) :
              prepareLog[i].ids[n] \in matchedIds(prepareLog[i].name))

\* the entity injected under x has the field id, which the pattern x.id
\* addresses; the tree passed had no x, and the id inside the entity was
\* not resolved
C33_Witness ==
    /\ pc = "done"
    /\ input = Obj([a |-> Str("A")])
    /\ \E e \in Entries :
         /\ plan[e].config.idKeyPath = <<Seg("x"), Seg("id")>>
         /\ plan[e].config.objectAbsent
         /\ LodashGet(result, plan[e].config.idKeyPath) = Str("A")
         /\ \A g \in Gets : getLog[g].entry # e
    /\ \A g \in Gets : getLog[g].name = "user"

(***************************************************************************)
(* Calls on trees that have a field named by a number, "1", next to other  *)
(* fields, with patterns that go through it.                               *)
(***************************************************************************)
NumberedTrees ==
    { Obj(("1" :> Obj([a |-> Str("A")])) @@ [x |-> Obj([a |-> Str("B")]), a |-> Str("A")]),
      Obj(("1" :> Obj([a |-> Str("B")])) @@ [x |-> Null, a |-> Str("B")]),
      Obj([x |-> Obj([a |-> Str("A")]), a |-> Str("A")]) }

NumberedConfigurations ==
    { c \in SeqsUpTo({ [path |-> path, opt |-> opt] :
                         path \in {<<"a">>, <<"x", "a">>, <<"1", "a">>},
                         opt \in { PathOption("user", ToKey("k", FALSE), FALSE, "none"),
                                   PathOption("todo", NoTo, TRUE, "none") } }, 3) :
        /\ Len(c) >= 2
        /\ \A i, j \in 1..Len(c) : i # j => c[i].path # c[j].path }

NextNumbered ==
    \/ pc = "idle" /\ \E d \in NumberedTrees, opts \in NumberedConfigurations : Aggregate(d, opts)
    \/ \E i \in pending, ok \in BOOLEAN : PrepareSettle(i, ok)
    \/ PreparesJoined
    \/ InjectSkip
    \/ InjectGet
    \/ InjectGetFails
    \/ InjectApply
    \/ Return

SpecNumbered == Init /\ [][NextNumbered]_vars

\* the occurrences of the patterns in the tree passed, in planning order
plannedOccurrences ==
    LET sorted == sortedPaths(options)
    IN Flatten([i \in 1..Len(sorted) |->
                  LET found == collectPathsAndValues(input, realPath(sorted[i].path))
                  IN [j \in 1..Len(found) |-> [descriptor |-> found[j], opt |-> sorted[i].opt]]])

\* the plan entries in plan order: the target paths in the order in which
\* each was first inserted, the entries of one target path in the order
\* they were planned
entriesInPlanOrder ==
    LET planned == [o \in 1..Len(plannedOccurrences) |-> entryOf(plannedOccurrences[o])]
        firstAt(i) == CHOOSE m \in 1..Len(planned) :
                        /\ planned[m].path = planned[i].path
                        /\ \A n \in 1..Len(planned) : planned[n].path = planned[i].path => m <= n
        before(i, j) == firstAt(i) < firstAt(j) \/ (firstAt(i) = firstAt(j) /\ i < j)
        place(i) == Cardinality({j \in 1..Len(planned) : before(j, i)}) + 1
    IN [k \in 1..Len(planned) |-> planned[CHOOSE i \in 1..Len(planned) : place(i) = k]]

\* C34: in a call that returns, get has been called once for every plan
\* entry whose container exists, also when the same identifier of the same
\* source occurs at several places, and no other get; the calls were issued
\* in plan order, the target paths in order of first insertion and the
\* entries of one target path in pattern order
C34_OneGetPerEntryInPlanOrder ==
    (pc = "done" /\ ~noData(input)) =>
      LET expected == SelectSeq(entriesInPlanOrder, LAMBDA e : ~e.config.objectAbsent)
      IN /\ Len(getLog) = Len(expected)
         /\ Len(getLog) = Cardinality({i \in Entries : ~plan[i].config.objectAbsent})
         /\ \A g \in Gets :
              /\ plan[getLog[g].entry] = expected[g]
              /\ getLog[g].id = expected[g].config.id
              /\ getLog[g].name = expected[g].config.source

\* the same, for the trees in which no target path is an array index
C34_OneGetPerEntryNoIndexKey ==
    (pc = "done" /\ ~noData(input) /\ \A i \in Entries : ~isIndexKey(plan[i].path)) =>
      LET expected == SelectSeq(entriesInPlanOrder, LAMBDA e : ~e.config.objectAbsent)
      IN /\ Len(getLog) = Len(expected)
         /\ Len(getLog) = Cardinality({i \in Entries : ~plan[i].config.objectAbsent})
         /\ \A g \in Gets :
              /\ plan[getLog[g].entry] = expected[g]
              /\ getLog[g].id = expected[g].config.id
              /\ getLog[g].name = expected[g].config.source

(***************************************************************************)
(* Two calls of aggregate on one aggregator, each on a tree of its own,    *)
(* running at the same time: the second starts while the first waits or    *)
(* after it ended, and they take turns wherever one of them awaits.  Every *)
(* lookup succeeds and returns the records of the collection.              *)
(***************************************************************************)
ConcurrentTrees ==
    { Obj([x |-> Obj([a |-> Str("A")])]),
      Obj([x |-> Obj([a |-> Str("A")]), y |-> Obj([a |-> Str("A")]), z |-> Obj([a |-> Str("B")])]),
      Obj([x |-> Null, z |-> Obj([a |-> Str("B")])]) }

ConcurrentConfigurations ==
    { [i \in 1..Len(paths) |-> [path |-> paths[i], opt |-> opt]] :
        paths \in {<<<<"x", "a">>>>, <<<<"z", "a">>>>,
                   <<<<"x", "a">>, <<"y", "a">>, <<"z", "a">>>>},
        opt \in { PathOption("todo", NoTo, FALSE, "none"),
                  PathOption("todo", ToKey("k", FALSE), FALSE, "none") } }

NextConcurrent ==
    \/ pc = "idle" /\ \E d \in ConcurrentTrees, opts \in ConcurrentConfigurations : Aggregate(d, opts)
    \/ \E i \in pending : PrepareSettle(i, TRUE)
    \/ PreparesJoined
    \/ InjectSkip
    \/ InjectGet
    \/ InjectApply
    \/ Return
    \/ Switch

SpecConcurrent == Init /\ [][NextConcurrent]_vars

\* the memories after the prepare calls of one aggregate call have settled
RECURSIVE memoryPrepared(_, _)
memoryPrepared(mem, prepares) ==
    IF prepares = <<>> THEN mem
    ELSE LET inst == Head(prepares).source
         IN memoryPrepared([mem EXCEPT ![inst] = memorySet(@, inst, lookupFn(inst, Head(prepares).ids))],
                           Tail(prepares))

\* what one aggregate call that runs alone returns, and the memories it leaves
alone(mem, tree, opts) ==
    IF noData(tree) THEN [result |-> Null, memory |-> mem]
    ELSE LET planned == planOf(tree, opts)
             prepared == memoryPrepared(mem, prepareCalls(entitySourceNames(opts),
                                                          planned.sourceToIds, sources))
         IN [result |-> treeAfter(tree, entriesOf(planned.pathToEnrichmentConfigMap), prepared),
             memory |-> prepared]

\* what the two calls return when the second starts after the first ended
sequential(tree1, opts1, tree2, opts2) ==
    LET first == alone([inst \in SimpleInstances |-> NoFields], tree1, opts1)
    IN <<first.result, alone(first.memory, tree2, opts2).result>>

inputOf(n) == IF other.call = n THEN other.input ELSE input
optionsOf(n) == IF other.call = n THEN other.options ELSE options
resultOf(n) == IF other.call = n THEN other.result ELSE result
bothReturned == pc = "done" /\ other.pc = "done"

\* C35: two calls of aggregate on one aggregator and two trees, with the
\* sources shared, return under every interleaving of their prepare and get
\* steps the two trees that the calls return when one runs after the other
C35_InterleavedAsSequential ==
    bothReturned =>
      \/ <<resultOf(1), resultOf(2)>> = sequential(inputOf(1), optionsOf(1), inputOf(2), optionsOf(2))
      \/ <<resultOf(2), resultOf(1)>> = sequential(inputOf(2), optionsOf(2), inputOf(1), optionsOf(1))

\* the same, for two calls that each have one pattern
C35_InterleavedAsSequentialOnePattern ==
    (bothReturned /\ Len(optionsOf(1)) = 1 /\ Len(optionsOf(2)) = 1) =>
      \/ <<resultOf(1), resultOf(2)>> = sequential(inputOf(1), optionsOf(1), inputOf(2), optionsOf(2))
      \/ <<resultOf(2), resultOf(1)>> = sequential(inputOf(2), optionsOf(2), inputOf(1), optionsOf(1))

(***************************************************************************)
(* Calls whose every prepare and every get settles, with success or with   *)
(* failure, and whose continuations the event loop runs: on no tree, on    *)
(* trees with a container that is null, with a source that is not          *)
(* registered.                                                             *)
(***************************************************************************)
SettlingTrees == NumberedTrees \cup {Null}

SettlingConfigurations ==
    NumberedConfigurations
      \cup { << [path |-> <<"a">>, opt |-> PathOption("user", NoTo, FALSE, "none")],
                [path |-> <<"x", "a">>, opt |-> PathOption("ghost", NoTo, FALSE, "none")] >> }

NextSettling ==
    \/ pc = "idle" /\ \E d \in SettlingTrees, opts \in SettlingConfigurations : Aggregate(d, opts)
    \/ \E i \in pending, ok \in BOOLEAN : PrepareSettle(i, ok)
    \/ PreparesJoined
    \/ InjectSkip
    \/ InjectGet
    \/ InjectGetFails
    \/ InjectApply
    \/ Return

SpecSettling ==
    /\ Init
    /\ [][NextSettling]_vars
    /\ WF_vars(\E i \in pending, ok \in BOOLEAN : PrepareSettle(i, ok))
    /\ WF_vars(PreparesJoined)
    /\ WF_vars(InjectSkip)
    /\ WF_vars(InjectGet)
    /\ WF_vars(InjectGetFails \/ InjectApply)
    /\ WF_vars(Return)

settled == pc \in {"done", "failed"}

\* the longest pattern of the options, in segments
longestPattern ==
    CHOOSE n \in 0..8 :
      /\ \A i \in 1..Len(options) : Len(options[i].path) <= n
      /\ \E i \in 1..Len(options) : Len(options[i].path) = n

\* C36: when every prepare and every get settles, a call of aggregate that
\* has started returns or fails in the end; the resolver ends on every
\* pattern and tree, with descriptors no deeper than the pattern is long
C36_EveryCallSettles ==
    /\ Started ~> settled
    /\ [](plan # <<>> =>
            \A i \in Entries : Len(plan[i].config.idKeyPath) <= longestPattern)

C36_Witness ==
    /\ pc = "done"
    /\ prepareLog # <<>>
    /\ Len(getLog) >= 2
    /\ \E i \in Entries : skipEntry(plan[i].config)

====
